---- MODULE Spec2Model ----
(***************************************************************************)
(* Model of the TaskMate Terraform provider: the REST client               *)
(* (internal/provider/client.go), the managed task resource                *)
(* (internal/provider/task_resource.go) and the two data sources, driven   *)
(* by a host that invokes the lifecycle callbacks, against a remote task   *)
(* API that answers each request faithfully or with a fault.               *)
(***************************************************************************)
EXTENDS Integers, Sequences, FiniteSets, TLC

\* ------------------------------------------------------------------ bounds
\* Largest task id the remote API hands out.
MaxId == 2
\* Last instant of the remote API's clock (instants are half seconds).
MaxClock == 3

\* Resource instances the host manages.
Inst == {"r1", "r2"}

\* Data-source instances the host reads concurrently with the resources.
DataInst == {"d1"}

\* The instances the host may adopt with terraform import.
Imported == {"r2"}

\* ------------------------------------------------- attribute values (types.String)
Null == [kind |-> "null"]
Unknown == [kind |-> "unknown"]
StringValue(s) == [kind |-> "known", v |-> s]

\* types.String.ValueString: the string of a known value, "" for null or unknown.
ValueString(a) == IF a.kind = "known" THEN a.v ELSE ""

\* The same for the id attribute, whose strings are sequences of characters.
ValueStringId(a) == IF a.kind = "known" THEN a.v ELSE <<>>

\* v evaluated once and handed to F: a local variable of the code.
Bind(v, F(_)) == CHOOSE y \in {F(x) : x \in {v}} : TRUE

\* ------------------------------------------------- fmt.Sprintf("%d") and fmt.Sscanf("%d")
DigitChars == <<"0", "1", "2", "3", "4", "5", "6", "7", "8", "9">>

IsDigit(c) == \E d \in 1..10 : DigitChars[d] = c

DigitVal(c) == (CHOOSE d \in 1..10 : DigitChars[d] = c) - 1

RECURSIVE NatDigits(_)
NatDigits(n) == IF n < 10 THEN <<DigitChars[n + 1]>>
                ELSE NatDigits(n \div 10) \o <<DigitChars[(n % 10) + 1]>>

\* fmt.Sprintf("%d", n): the decimal digits of n, with a minus sign when negative.
Sprintf_d(n) == IF n < 0 THEN <<"-">> \o NatDigits(0 - n) ELSE NatDigits(n)

\* Index of the first character at or after i that is not a space (Len+1 if none).
RECURSIVE SkipSpace(_, _)
SkipSpace(s, i) == IF i <= Len(s) /\ s[i] = " " THEN SkipSpace(s, i + 1) ELSE i

\* Index after the longest run of digits and underscores starting at i.
RECURSIVE ScanNumber(_, _)
ScanNumber(s, i) == IF i <= Len(s) /\ (IsDigit(s[i]) \/ s[i] = "_")
                    THEN ScanNumber(s, i + 1) ELSE i

\* Value of the decimal digits s[i..j-1].
RECURSIVE DecimalValue(_, _, _, _)
DecimalValue(s, i, j, acc) == IF i >= j THEN acc
                              ELSE DecimalValue(s, i + 1, j, acc * 10 + DigitVal(s[i]))

\* fmt.Sscanf(s, "%d", &id): leading spaces are skipped, a sign is accepted,
\* the digits (and underscores) that follow are the token, which
\* strconv.ParseInt reads in base 10; whatever follows the token is ignored.
Sscanf_d(s) ==
    LET i0 == SkipSpace(s, 1)
        signed == i0 <= Len(s) /\ s[i0] \in {"+", "-"}
        i1 == IF signed THEN i0 + 1 ELSE i0
        i2 == ScanNumber(s, i1)
        hasUnderscore == \E k \in i1..(i2 - 1) : s[k] = "_"
        mag == DecimalValue(s, i1, i2, 0)
    IN  IF i2 = i1 \/ hasUnderscore
        THEN [ok |-> FALSE, n |-> 0]
        ELSE [ok |-> TRUE, n |-> IF signed /\ s[i0] = "-" THEN 0 - mag ELSE mag]

\* ------------------------------------------------- time.Time and its rendering
\* An instant t of the remote clock is second t \div 2 plus a fraction t % 2;
\* the clock starts half a second past second 0.
\* Time.Format("2006-01-02T15:04:05Z07:00") renders whole seconds only.
Format(t) == [sec |-> t \div 2]

\* ------------------------------------------------- the remote task API
\* A task as the API's JSON carries it (client.go, type Task); created_at and
\* updated_at are instants of the remote clock.
NoTask == [none |-> TRUE]

IsTask(t) == "id" \in DOMAIN t

\* What can go wrong with one HTTP exchange: nothing; the connection fails
\* before the request is served; the API answers 500 without serving it; the
\* API serves it but the body does not decode; the API serves it but answers
\* 200 where the contract names another success code.
Faults == {"none", "transport", "status500", "badjson", "ok200"}

SrvInit == [tasks |-> [k \in 1..MaxId |-> NoTask], nextId |-> 1, clock |-> 1]

Response(net, status, decodes, task, list) ==
    [net |-> net, status |-> status, decodes |-> decodes, task |-> task, list |-> list]

\* The id a request path names: the k in 1..MaxId whose decimal string is the
\* last path segment, 0 when there is none.
PathId(path) == IF \E k \in 1..MaxId : Sprintf_d(k) = path.id
                THEN CHOOSE k \in 1..MaxId : Sprintf_d(k) = path.id
                ELSE 0

RECURSIVE ListFrom(_, _)
ListFrom(tasks, k) == IF k > MaxId THEN <<>>
                      ELSE IF IsTask(tasks[k]) THEN <<tasks[k]>> \o ListFrom(tasks, k + 1)
                      ELSE ListFrom(tasks, k + 1)

\* POST /api/v1/tasks -> 201 + Task JSON
ServeCreate(req, srv) ==
    LET now == srv.clock + 1
        t == [id |-> srv.nextId,
              title |-> req.body.title,
              description |-> req.body.description,
              due_date |-> req.body.due_date,
              priority |-> IF req.body.priority = "" THEN "medium" ELSE req.body.priority,
              status |-> "pending",
              created_at |-> now,
              updated_at |-> now]
    IN  [resp |-> Response("ok", 201, TRUE, t, <<>>),
         srv |-> [tasks |-> [srv.tasks EXCEPT ![srv.nextId] = t],
                  nextId |-> srv.nextId + 1,
                  clock |-> now]]

\* GET /api/v1/tasks/{id} -> 200 + Task JSON | 404
ServeGet(req, srv) ==
    LET k == PathId(req.path)
    IN  IF k # 0 /\ IsTask(srv.tasks[k])
        THEN [resp |-> Response("ok", 200, TRUE, srv.tasks[k], <<>>), srv |-> srv]
        ELSE [resp |-> Response("ok", 404, TRUE, NoTask, <<>>), srv |-> srv]

\* PUT /api/v1/tasks/{id} -> 200 + Task JSON | 404
ServeUpdate(req, srv) ==
    LET k == PathId(req.path)
        now == srv.clock + 1
        old == srv.tasks[k]
        t == [id |-> old.id,
              title |-> req.body.title,
              description |-> req.body.description,
              due_date |-> req.body.due_date,
              priority |-> IF req.body.priority = "" THEN old.priority ELSE req.body.priority,
              status |-> IF req.body.status = "" THEN old.status ELSE req.body.status,
              created_at |-> old.created_at,
              updated_at |-> now]
    IN  IF k # 0 /\ IsTask(srv.tasks[k])
        THEN [resp |-> Response("ok", 200, TRUE, t, <<>>),
              srv |-> [srv EXCEPT !.tasks[k] = t, !.clock = now]]
        ELSE [resp |-> Response("ok", 404, TRUE, NoTask, <<>>), srv |-> srv]

\* DELETE /api/v1/tasks/{id} -> 204 | 404
ServeDelete(req, srv) ==
    LET k == PathId(req.path)
    IN  IF k # 0 /\ IsTask(srv.tasks[k])
        THEN [resp |-> Response("ok", 204, TRUE, NoTask, <<>>),
              srv |-> [srv EXCEPT !.tasks[k] = NoTask]]
        ELSE [resp |-> Response("ok", 404, TRUE, NoTask, <<>>), srv |-> srv]

\* GET /api/v1/tasks -> 200 + JSON array of Task
ServeList(req, srv) ==
    [resp |-> Response("ok", 200, TRUE, NoTask, ListFrom(srv.tasks, 1)), srv |-> srv]

\* Write operations (POST, PUT, DELETE) need a token in the X-API-Token
\* header; read operations need none.
Authorized(req) ==
    \/ req.method = "GET"
    \/ "X-API-Token" \in DOMAIN req.header /\ req.header["X-API-Token"] # ""

Serve(req, srv) ==
    CASE ~Authorized(req) -> [resp |-> Response("ok", 401, TRUE, NoTask, <<>>), srv |-> srv]
      [] req.method = "POST" -> ServeCreate(req, srv)
      [] req.method = "PUT" -> ServeUpdate(req, srv)
      [] req.method = "DELETE" -> ServeDelete(req, srv)
      [] req.method = "GET" /\ req.path.id = <<>> -> ServeList(req, srv)
      [] OTHER -> ServeGet(req, srv)

\* http.Client.Do as the provider sees it: the exchange under a fault.
Do(req, srv, fault) ==
    Bind(Serve(req, srv), LAMBDA f :
        CASE fault = "transport" ->
               [resp |-> Response("err", 0, FALSE, NoTask, <<>>), srv |-> srv]
          [] fault = "status500" ->
               [resp |-> Response("ok", 500, FALSE, NoTask, <<>>), srv |-> srv]
          [] fault = "badjson" /\ f.resp.status \in {200, 201, 204} ->
               [resp |-> [f.resp EXCEPT !.decodes = FALSE], srv |-> f.srv]
          [] fault = "ok200" /\ f.resp.status \in {200, 201, 204} ->
               [resp |-> [f.resp EXCEPT !.status = 200], srv |-> f.srv]
          [] OTHER -> f)

\* ------------------------------------------------- the API client (client.go)
NoBody == [nil |-> TRUE]

TasksPath == [base |-> "/tasks", id |-> <<>>]

\* fmt.Sprintf("/tasks/%d", id)
TaskPath(id) == [base |-> "/tasks", id |-> Sprintf_d(id)]

\* NewClient: the client the provider shares (the HTTP timeout is left out).
NewClient(host, token) == [Host |-> host, Token |-> token]

\* makeRequest setting the token header whatever the token is.
makeRequest_AlwaysToken(c, method, path, body) ==
    [method |-> method,
     url |-> <<c.Host, "/api/v1", path>>,
     path |-> path,
     header |-> [h \in {"X-API-Token", "Content-Type"} |->
                   IF h = "X-API-Token" THEN c.Token ELSE "application/json"],
     body |-> body]

\* Client.makeRequest: the request handed to http.Client.Do. The URL is the
\* concatenation of its three parts; path is kept beside it for the record.
makeRequest(c, method, path, body) ==
    [method |-> method,
     url |-> <<c.Host, "/api/v1", path>>,
     path |-> path,
     header |-> [h \in (IF c.Token # "" THEN {"X-API-Token"} ELSE {}) \cup {"Content-Type"} |->
                   IF h = "X-API-Token" THEN c.Token ELSE "application/json"],
     body |-> body]

\* The errors of the client operations; nil is no error.
nil == [kind |-> "nil"]

\* The error http.Client.Do returned.
TransportError == [kind |-> "transport"]

\* fmt.Errorf("task with ID %d not found", id)
NotFound(id) == [kind |-> "not found", id |-> id]

\* The body of a response as io.ReadAll returns it.
Body(resp) == [decodes |-> resp.decodes, task |-> resp.task, list |-> resp.list]

\* fmt.Errorf("API error: %s (status: %d)", string(body), resp.StatusCode)
APIError(resp) == [kind |-> "API error", body |-> Body(resp), status |-> resp.status]

\* fmt.Errorf("failed to decode response: %w", err)
DecodeError == [kind |-> "failed to decode response"]

\* What a client operation hands back: the task (NoTask for nil), the list,
\* the error, and, for the record, the request it issued, the
\* response it got and the remote API's store after the exchange.
ClientResult(task, list, err, req, d) ==
    [task |-> task, list |-> list, err |-> err, reqs |-> <<req>>, resp |-> d.resp, srv |-> d.srv]

\* CreateTask sending a status of its own.
CreateTask_SendsStatus(c, title, description, dueDate, priority, srv, fault) ==
    LET reqBody == [title |-> title, description |-> description,
                    due_date |-> dueDate, priority |-> priority, status |-> "pending"]
        req == makeRequest(c, "POST", TasksPath, reqBody)
    IN  Bind(Do(req, srv, fault), LAMBDA d :
        IF d.resp.net = "err" THEN ClientResult(NoTask, <<>>, TransportError, req, d)
        ELSE IF d.resp.status # 201 THEN ClientResult(NoTask, <<>>, APIError(d.resp), req, d)
        ELSE IF ~d.resp.decodes THEN ClientResult(NoTask, <<>>, DecodeError, req, d)
        ELSE ClientResult(d.resp.task, <<>>, nil, req, d))

\* CreateTask leaving the response body out of its API error.
CreateTask_ErrorNoBody(c, title, description, dueDate, priority, srv, fault) ==
    LET reqBody == [title |-> title, description |-> description,
                    due_date |-> dueDate, priority |-> priority]
        req == makeRequest(c, "POST", TasksPath, reqBody)
    IN  Bind(Do(req, srv, fault), LAMBDA d :
        IF d.resp.net = "err" THEN ClientResult(NoTask, <<>>, TransportError, req, d)
        ELSE IF d.resp.status # 201
        THEN ClientResult(NoTask, <<>>, APIError([d.resp EXCEPT !.decodes = FALSE, !.task = NoTask]), req, d)
        ELSE IF ~d.resp.decodes THEN ClientResult(NoTask, <<>>, DecodeError, req, d)
        ELSE ClientResult(d.resp.task, <<>>, nil, req, d))

\* CreateTask taking any 2xx status for success.
CreateTask_Any2xx(c, title, description, dueDate, priority, srv, fault) ==
    LET reqBody == [title |-> title, description |-> description,
                    due_date |-> dueDate, priority |-> priority]
        req == makeRequest(c, "POST", TasksPath, reqBody)
    IN  Bind(Do(req, srv, fault), LAMBDA d :
        IF d.resp.net = "err" THEN ClientResult(NoTask, <<>>, TransportError, req, d)
        ELSE IF d.resp.status \notin {200, 201} THEN ClientResult(NoTask, <<>>, APIError(d.resp), req, d)
        ELSE IF ~d.resp.decodes THEN ClientResult(NoTask, <<>>, DecodeError, req, d)
        ELSE ClientResult(d.resp.task, <<>>, nil, req, d))

CreateTask(c, title, description, dueDate, priority, srv, fault) ==
    LET reqBody == [title |-> title, description |-> description,
                    due_date |-> dueDate, priority |-> priority]
        req == makeRequest(c, "POST", TasksPath, reqBody)
    IN  Bind(Do(req, srv, fault), LAMBDA d :
        IF d.resp.net = "err" THEN ClientResult(NoTask, <<>>, TransportError, req, d)
        ELSE IF d.resp.status # 201 THEN ClientResult(NoTask, <<>>, APIError(d.resp), req, d)
        ELSE IF ~d.resp.decodes THEN ClientResult(NoTask, <<>>, DecodeError, req, d)
        ELSE ClientResult(d.resp.task, <<>>, nil, req, d))

\* GetTask answering 404 with an empty Task and no error.
GetTask_NotFoundEmpty(c, id, srv, fault) ==
    LET req == makeRequest(c, "GET", TaskPath(id), NoBody)
    IN  Bind(Do(req, srv, fault), LAMBDA d :
        IF d.resp.net = "err" THEN ClientResult(NoTask, <<>>, TransportError, req, d)
        ELSE IF d.resp.status = 404
        THEN ClientResult([id |-> 0, title |-> "", description |-> "", due_date |-> "",
                           priority |-> "", status |-> "", created_at |-> 0, updated_at |-> 0],
                          <<>>, nil, req, d)
        ELSE IF d.resp.status # 200 THEN ClientResult(NoTask, <<>>, APIError(d.resp), req, d)
        ELSE IF ~d.resp.decodes THEN ClientResult(NoTask, <<>>, DecodeError, req, d)
        ELSE ClientResult(d.resp.task, <<>>, nil, req, d))

\* GetTask with no case of its own for 404.
GetTask_NotFoundGeneric(c, id, srv, fault) ==
    LET req == makeRequest(c, "GET", TaskPath(id), NoBody)
    IN  Bind(Do(req, srv, fault), LAMBDA d :
        IF d.resp.net = "err" THEN ClientResult(NoTask, <<>>, TransportError, req, d)
        ELSE IF d.resp.status # 200 THEN ClientResult(NoTask, <<>>, APIError(d.resp), req, d)
        ELSE IF ~d.resp.decodes THEN ClientResult(NoTask, <<>>, DecodeError, req, d)
        ELSE ClientResult(d.resp.task, <<>>, nil, req, d))

GetTask(c, id, srv, fault) ==
    LET req == makeRequest(c, "GET", TaskPath(id), NoBody)
    IN  Bind(Do(req, srv, fault), LAMBDA d :
        IF d.resp.net = "err" THEN ClientResult(NoTask, <<>>, TransportError, req, d)
        ELSE IF d.resp.status = 404 THEN ClientResult(NoTask, <<>>, NotFound(id), req, d)
        ELSE IF d.resp.status # 200 THEN ClientResult(NoTask, <<>>, APIError(d.resp), req, d)
        ELSE IF ~d.resp.decodes THEN ClientResult(NoTask, <<>>, DecodeError, req, d)
        ELSE ClientResult(d.resp.task, <<>>, nil, req, d))

\* UpdateTask handing the decoded body back together with its API error.
UpdateTask_TaskWithError(c, id, title, description, dueDate, priority, status, srv, fault) ==
    LET reqBody == [title |-> title, description |-> description,
                    due_date |-> dueDate, priority |-> priority, status |-> status]
        req == makeRequest(c, "PUT", TaskPath(id), reqBody)
    IN  Bind(Do(req, srv, fault), LAMBDA d :
        IF d.resp.net = "err" THEN ClientResult(NoTask, <<>>, TransportError, req, d)
        ELSE IF d.resp.status = 404 THEN ClientResult(NoTask, <<>>, NotFound(id), req, d)
        ELSE IF d.resp.status # 200 THEN ClientResult(NoTask, <<>>, APIError(d.resp), req, d)
        ELSE IF ~d.resp.decodes THEN ClientResult(d.resp.task, <<>>, DecodeError, req, d)
        ELSE ClientResult(d.resp.task, <<>>, nil, req, d))

UpdateTask(c, id, title, description, dueDate, priority, status, srv, fault) ==
    LET reqBody == [title |-> title, description |-> description,
                    due_date |-> dueDate, priority |-> priority, status |-> status]
        req == makeRequest(c, "PUT", TaskPath(id), reqBody)
    IN  Bind(Do(req, srv, fault), LAMBDA d :
        IF d.resp.net = "err" THEN ClientResult(NoTask, <<>>, TransportError, req, d)
        ELSE IF d.resp.status = 404 THEN ClientResult(NoTask, <<>>, NotFound(id), req, d)
        ELSE IF d.resp.status # 200 THEN ClientResult(NoTask, <<>>, APIError(d.resp), req, d)
        ELSE IF ~d.resp.decodes THEN ClientResult(NoTask, <<>>, DecodeError, req, d)
        ELSE ClientResult(d.resp.task, <<>>, nil, req, d))

\* DeleteTask taking 200 for success as well.
DeleteTask_Any2xx(c, id, srv, fault) ==
    LET req == makeRequest(c, "DELETE", TaskPath(id), NoBody)
    IN  Bind(Do(req, srv, fault), LAMBDA d :
        IF d.resp.net = "err" THEN ClientResult(NoTask, <<>>, TransportError, req, d)
        ELSE IF d.resp.status = 404 THEN ClientResult(NoTask, <<>>, NotFound(id), req, d)
        ELSE IF d.resp.status \notin {200, 204} THEN ClientResult(NoTask, <<>>, APIError(d.resp), req, d)
        ELSE ClientResult(NoTask, <<>>, nil, req, d))

DeleteTask(c, id, srv, fault) ==
    LET req == makeRequest(c, "DELETE", TaskPath(id), NoBody)
    IN  Bind(Do(req, srv, fault), LAMBDA d :
        IF d.resp.net = "err" THEN ClientResult(NoTask, <<>>, TransportError, req, d)
        ELSE IF d.resp.status = 404 THEN ClientResult(NoTask, <<>>, NotFound(id), req, d)
        ELSE IF d.resp.status # 204 THEN ClientResult(NoTask, <<>>, APIError(d.resp), req, d)
        ELSE ClientResult(NoTask, <<>>, nil, req, d))

\* ListTasks sending its request once more when the transport failed.
ListTasks_Retry(c, srv, fault) ==
    LET req == makeRequest(c, "GET", TasksPath, NoBody)
    IN  Bind(Do(req, srv, fault), LAMBDA d :
        IF d.resp.net = "err"
        THEN [ClientResult(NoTask, <<>>, TransportError, req, d) EXCEPT !.reqs = <<req, req>>]
        ELSE IF d.resp.status # 200 THEN ClientResult(NoTask, <<>>, APIError(d.resp), req, d)
        ELSE IF ~d.resp.decodes THEN ClientResult(NoTask, <<>>, DecodeError, req, d)
        ELSE ClientResult(NoTask, d.resp.list, nil, req, d))

\* ListTasks returning the first task of the response only.
ListTasks_FirstOnly(c, srv, fault) ==
    LET req == makeRequest(c, "GET", TasksPath, NoBody)
    IN  Bind(Do(req, srv, fault), LAMBDA d :
        IF d.resp.net = "err" THEN ClientResult(NoTask, <<>>, TransportError, req, d)
        ELSE IF d.resp.status # 200 THEN ClientResult(NoTask, <<>>, APIError(d.resp), req, d)
        ELSE IF ~d.resp.decodes THEN ClientResult(NoTask, <<>>, DecodeError, req, d)
        ELSE ClientResult(NoTask, IF d.resp.list = <<>> THEN <<>> ELSE <<d.resp.list[1]>>,
                          nil, req, d))

ListTasks(c, srv, fault) ==
    LET req == makeRequest(c, "GET", TasksPath, NoBody)
    IN  Bind(Do(req, srv, fault), LAMBDA d :
        IF d.resp.net = "err" THEN ClientResult(NoTask, <<>>, TransportError, req, d)
        ELSE IF d.resp.status # 200 THEN ClientResult(NoTask, <<>>, APIError(d.resp), req, d)
        ELSE IF ~d.resp.decodes THEN ClientResult(NoTask, <<>>, DecodeError, req, d)
        ELSE ClientResult(NoTask, d.resp.list, nil, req, d))

\* ------------------------------------------------- the managed resource (task_resource.go)
\* The framework's null state: no resource recorded.
NullState == [absent |-> TRUE]

NoResp == Response("none", 0, FALSE, NoTask, <<>>)

\* No client call was made.
NoCall(srv) ==
    [task |-> NoTask, list |-> <<>>, err |-> nil, reqs |-> <<>>, resp |-> NoResp, srv |-> srv]

\* What a callback leaves in its response: the state, the diagnostics (the
\* summaries of the errors added), and, for the record, what the client call
\* r handed back: the requests issued, the response, the task, the list, the
\* error and the remote store.
CallbackResult(st, diags, r) ==
    [state |-> st, diags |-> diags, reqs |-> r.reqs, http |-> r.resp, task |-> r.task,
     list |-> r.list, err |-> r.err, srv |-> r.srv]

HasError(diags) == Len(diags) > 0

\* TaskResourceModel populated from a client Task; the id is passed separately.
ModelFromTask(id, task) ==
    [id |-> id,
     title |-> StringValue(task.title),
     description |-> StringValue(task.description),
     due_date |-> StringValue(task.due_date),
     priority |-> StringValue(task.priority),
     status |-> StringValue(task.status),
     created_at |-> StringValue(Format(task.created_at)),
     updated_at |-> StringValue(Format(task.updated_at))]

\* Create keeping the plan's priority instead of the response's.
ResourceCreate_PlanPriority(client, plan, srv, fault) ==
    Bind(CreateTask(client, ValueString(plan.title), ValueString(plan.description),
                    ValueString(plan.due_date), ValueString(plan.priority), srv, fault),
         LAMBDA r :
            IF r.err # nil
            THEN CallbackResult(NullState, <<"Client Error">>, r)
            ELSE CallbackResult(
                     [ModelFromTask(StringValue(Sprintf_d(r.task.id)), r.task)
                         EXCEPT !.priority = plan.priority],
                     <<>>, r))

\* TaskResource.Create: resp.State starts null and is set only on success.
ResourceCreate(client, plan, srv, fault) ==
    Bind(CreateTask(client, ValueString(plan.title), ValueString(plan.description),
                    ValueString(plan.due_date), ValueString(plan.priority), srv, fault),
         LAMBDA r :
            IF r.err # nil
            THEN CallbackResult(NullState, <<"Client Error">>, r)
            ELSE CallbackResult(ModelFromTask(StringValue(Sprintf_d(r.task.id)), r.task),
                                <<>>, r))

\* Read removing the resource from state when the task is not found.
ResourceRead_RemoveOn404(client, data, srv, fault) ==
    Bind(Sscanf_d(ValueStringId(data.id)), LAMBDA p :
        IF ~p.ok
        THEN CallbackResult(data, <<"Parse Error">>, NoCall(srv))
        ELSE Bind(GetTask(client, p.n, srv, fault), LAMBDA r :
            IF r.err.kind = "not found"
            THEN CallbackResult(NullState, <<>>, r)
            ELSE IF r.err # nil
            THEN CallbackResult(data, <<"Client Error">>, r)
            ELSE CallbackResult(ModelFromTask(data.id, r.task), <<>>, r)))

\* Read overwriting the id too, from the response.
ResourceRead_IdFromTask(client, data, srv, fault) ==
    Bind(Sscanf_d(ValueStringId(data.id)), LAMBDA p :
        IF ~p.ok
        THEN CallbackResult(data, <<"Parse Error">>, NoCall(srv))
        ELSE Bind(GetTask(client, p.n, srv, fault), LAMBDA r :
            IF r.err # nil
            THEN CallbackResult(data, <<"Client Error">>, r)
            ELSE CallbackResult(ModelFromTask(StringValue(Sprintf_d(r.task.id)), r.task), <<>>, r)))

\* Read leaving the status of the request's state in place.
ResourceRead_KeepStatus(client, data, srv, fault) ==
    Bind(Sscanf_d(ValueStringId(data.id)), LAMBDA p :
        IF ~p.ok
        THEN CallbackResult(data, <<"Parse Error">>, NoCall(srv))
        ELSE Bind(GetTask(client, p.n, srv, fault), LAMBDA r :
            IF r.err # nil
            THEN CallbackResult(data, <<"Client Error">>, r)
            ELSE CallbackResult([ModelFromTask(data.id, r.task) EXCEPT !.status = data.status], <<>>, r)))

\* TaskResource.Read: resp.State starts as the request's state.
ResourceRead(client, data, srv, fault) ==
    Bind(Sscanf_d(ValueStringId(data.id)), LAMBDA p :
        IF ~p.ok
        THEN CallbackResult(data, <<"Parse Error">>, NoCall(srv))
        ELSE Bind(GetTask(client, p.n, srv, fault), LAMBDA r :
            IF r.err # nil
            THEN CallbackResult(data, <<"Client Error">>, r)
            ELSE CallbackResult(ModelFromTask(data.id, r.task), <<>>, r)))

\* Update leaving the two timestamps as the plan has them.
ResourceUpdate_PlanTimestamps(client, prior, plan, srv, fault) ==
    Bind(Sscanf_d(ValueStringId(plan.id)), LAMBDA p :
        IF ~p.ok
        THEN CallbackResult(prior, <<"Parse Error">>, NoCall(srv))
        ELSE Bind(UpdateTask(client, p.n, ValueString(plan.title), ValueString(plan.description),
                             ValueString(plan.due_date), ValueString(plan.priority),
                             ValueString(plan.status), srv, fault), LAMBDA r :
            IF r.err # nil
            THEN CallbackResult(prior, <<"Client Error">>, r)
            ELSE CallbackResult([ModelFromTask(plan.id, r.task) EXCEPT
                                    !.created_at = plan.created_at,
                                    !.updated_at = plan.updated_at], <<>>, r)))

\* Update taking the id, too, from the response.
ResourceUpdate_IdFromTask(client, prior, plan, srv, fault) ==
    Bind(Sscanf_d(ValueStringId(plan.id)), LAMBDA p :
        IF ~p.ok
        THEN CallbackResult(prior, <<"Parse Error">>, NoCall(srv))
        ELSE Bind(UpdateTask(client, p.n, ValueString(plan.title), ValueString(plan.description),
                             ValueString(plan.due_date), ValueString(plan.priority),
                             ValueString(plan.status), srv, fault), LAMBDA r :
            IF r.err # nil
            THEN CallbackResult(prior, <<"Client Error">>, r)
            ELSE CallbackResult(ModelFromTask(StringValue(Sprintf_d(r.task.id)), r.task), <<>>, r)))

\* Update not passing the planned status on.
ResourceUpdate_NoStatus(client, prior, plan, srv, fault) ==
    Bind(Sscanf_d(ValueStringId(plan.id)), LAMBDA p :
        IF ~p.ok
        THEN CallbackResult(prior, <<"Parse Error">>, NoCall(srv))
        ELSE Bind(UpdateTask(client, p.n, ValueString(plan.title), ValueString(plan.description),
                             ValueString(plan.due_date), ValueString(plan.priority),
                             "", srv, fault), LAMBDA r :
            IF r.err # nil
            THEN CallbackResult(prior, <<"Client Error">>, r)
            ELSE CallbackResult(ModelFromTask(plan.id, r.task), <<>>, r)))

\* TaskResource.Update: the model is read from the plan; resp.State starts as
\* the prior state.
ResourceUpdate(client, prior, plan, srv, fault) ==
    Bind(Sscanf_d(ValueStringId(plan.id)), LAMBDA p :
        IF ~p.ok
        THEN CallbackResult(prior, <<"Parse Error">>, NoCall(srv))
        ELSE Bind(UpdateTask(client, p.n, ValueString(plan.title), ValueString(plan.description),
                             ValueString(plan.due_date), ValueString(plan.priority),
                             ValueString(plan.status), srv, fault), LAMBDA r :
            IF r.err # nil
            THEN CallbackResult(prior, <<"Client Error">>, r)
            ELSE CallbackResult(ModelFromTask(plan.id, r.task), <<>>, r)))

\* Delete taking a task that is not found for deleted.
ResourceDelete_IgnoreNotFound(client, data, srv, fault) ==
    Bind(Sscanf_d(ValueStringId(data.id)), LAMBDA p :
        IF ~p.ok
        THEN CallbackResult(data, <<"Parse Error">>, NoCall(srv))
        ELSE Bind(DeleteTask(client, p.n, srv, fault), LAMBDA r :
            IF r.err # nil /\ r.err.kind # "not found"
            THEN CallbackResult(data, <<"Client Error">>, r)
            ELSE CallbackResult(data, <<>>, r)))

\* Delete dropping the client's error.
ResourceDelete_Swallow(client, data, srv, fault) ==
    Bind(Sscanf_d(ValueStringId(data.id)), LAMBDA p :
        IF ~p.ok
        THEN CallbackResult(data, <<"Parse Error">>, NoCall(srv))
        ELSE Bind(DeleteTask(client, p.n, srv, fault), LAMBDA r :
            CallbackResult(data, <<>>, r)))

\* TaskResource.Delete: never sets state.
ResourceDelete(client, data, srv, fault) ==
    Bind(Sscanf_d(ValueStringId(data.id)), LAMBDA p :
        IF ~p.ok
        THEN CallbackResult(data, <<"Parse Error">>, NoCall(srv))
        ELSE Bind(DeleteTask(client, p.n, srv, fault), LAMBDA r :
            IF r.err # nil
            THEN CallbackResult(data, <<"Client Error">>, r)
            ELSE CallbackResult(data, <<>>, r)))

\* ImportState storing the identifier parsed and printed again.
ImportState_Normalized(reqID, srv) ==
    CallbackResult([id |-> StringValue(Sprintf_d(Sscanf_d(reqID).n)), title |-> Null,
                    description |-> Null, due_date |-> Null, priority |-> Null,
                    status |-> Null, created_at |-> Null, updated_at |-> Null],
                   <<>>, NoCall(srv))

\* TaskResource.ImportState: resource.ImportStatePassthroughID sets the id
\* attribute of an otherwise null state to the import identifier.
ImportState(reqID, srv) ==
    CallbackResult([id |-> StringValue(reqID), title |-> Null, description |-> Null,
                    due_date |-> Null, priority |-> Null, status |-> Null,
                    created_at |-> Null, updated_at |-> Null],
                   <<>>, NoCall(srv))

\* ------------------------------------------------- the data sources
\* The data source's Read taking the id, too, from the response.
TaskDataSourceRead_IdFromTask(client, config, srv, fault) ==
    Bind(Sscanf_d(ValueStringId(config.id)), LAMBDA p :
        IF ~p.ok
        THEN CallbackResult(NullState, <<"Parse Error">>, NoCall(srv))
        ELSE Bind(GetTask(client, p.n, srv, fault), LAMBDA r :
            IF r.err # nil
            THEN CallbackResult(NullState, <<"Client Error">>, r)
            ELSE CallbackResult(ModelFromTask(StringValue(Sprintf_d(r.task.id)), r.task), <<>>, r)))

\* TaskDataSource.Read: resp.State starts null.
TaskDataSourceRead(client, config, srv, fault) ==
    Bind(Sscanf_d(ValueStringId(config.id)), LAMBDA p :
        IF ~p.ok
        THEN CallbackResult(NullState, <<"Parse Error">>, NoCall(srv))
        ELSE Bind(GetTask(client, p.n, srv, fault), LAMBDA r :
            IF r.err # nil
            THEN CallbackResult(NullState, <<"Client Error">>, r)
            ELSE CallbackResult(ModelFromTask(config.id, r.task), <<>>, r)))

\* The list data source's Read storing an empty list when ListTasks failed.
TasksDataSourceRead_Swallow(client, srv, fault) ==
    Bind(ListTasks(client, srv, fault), LAMBDA r :
        CallbackResult(
            [tasks |-> [k \in 1..Len(r.list) |->
                           ModelFromTask(StringValue(Sprintf_d(r.list[k].id)), r.list[k])],
             id |-> StringValue("tasks")],
            <<>>, r))

\* The list data source's Read storing the tasks last to first.
TasksDataSourceRead_Reversed(client, srv, fault) ==
    Bind(ListTasks(client, srv, fault), LAMBDA r :
        IF r.err # nil
        THEN CallbackResult(NullState, <<"Client Error">>, r)
        ELSE CallbackResult(
                 [tasks |-> [k \in 1..Len(r.list) |->
                                ModelFromTask(StringValue(Sprintf_d(r.list[Len(r.list) + 1 - k].id)),
                                              r.list[Len(r.list) + 1 - k])],
                  id |-> StringValue("tasks")],
                 <<>>, r))

\* TasksDataSource.Read: one entry per returned task, in order, and the
\* placeholder id.
TasksDataSourceRead(client, srv, fault) ==
    Bind(ListTasks(client, srv, fault), LAMBDA r :
        IF r.err # nil
        THEN CallbackResult(NullState, <<"Client Error">>, r)
        ELSE CallbackResult(
                 [tasks |-> [k \in 1..Len(r.list) |->
                                ModelFromTask(StringValue(Sprintf_d(r.list[k].id)), r.list[k])],
                  id |-> StringValue("tasks")],
                 <<>>, r))

\* ------------------------------------------------- the provider (provider.go)
\* Configure passing an empty host on as it is.
ProviderConfigure_NoDefault(data) ==
    Bind(NewClient(ValueString(data.host), ValueString(data.token)), LAMBDA client :
        [DataSourceData |-> client, ResourceData |-> client])

\* TaskMateProvider.Configure: the client built from the provider block, made
\* available to the resources and to the data sources.
ProviderConfigure(data) ==
    Bind(NewClient(IF ValueString(data.host) = "" THEN "http://localhost:8080"
                   ELSE ValueString(data.host),
                   ValueString(data.token)), LAMBDA client :
        [DataSourceData |-> client, ResourceData |-> client])

\* ------------------------------------------------- the host and its inputs
\* The provider blocks and process environments the host runs the provider
\* with: host is omitted, empty or given, token is omitted, empty or given,
\* and the two environment variables are unset ("") or set.
Deployments ==
    { [config |-> [host |-> Null, token |-> Null],
       env |-> [TASKMATE_HOST |-> "", TASKMATE_TOKEN |-> ""]],
      [config |-> [host |-> Null, token |-> Null],
       env |-> [TASKMATE_HOST |-> "http://tasks.example:8080", TASKMATE_TOKEN |-> "t0k3n"]],
      [config |-> [host |-> StringValue(""), token |-> StringValue("s3cret")],
       env |-> [TASKMATE_HOST |-> "", TASKMATE_TOKEN |-> ""]],
      [config |-> [host |-> StringValue("http://taskmate:9090"), token |-> StringValue("")],
       env |-> [TASKMATE_HOST |-> "http://tasks.example:8080", TASKMATE_TOKEN |-> "t0k3n"]] }

\* Resource configurations the host plans from (title is required; the other
\* four are optional and null when omitted).
Configs ==
    { [title |-> StringValue("Deploy"), description |-> Null, due_date |-> Null,
       priority |-> Null, status |-> Null],
      [title |-> StringValue("Review"), description |-> StringValue("v2"),
       due_date |-> StringValue("2024-12-31"), priority |-> StringValue("high"),
       status |-> StringValue("completed")] }

\* Identifiers given to terraform import: the numerals of the ids the API
\* hands out, a numeral with a leading zero, and two strings that are no number.
ImportIds ==
    {Sprintf_d(k) : k \in 1..MaxId} \cup { <<"0", "1">>, <<"x">>, <<>> }

\* Ids configured for the single-task data source: the same numerals, a
\* negative one, and strings with a space, a letter or an underscore in them.
DataIds ==
    {Sprintf_d(k) : k \in 1..MaxId} \cup
    { <<"-", "1">>, <<"1", "x">>, <<" ", "1">>, <<"1", "_">>, <<"x">>, <<>> }

\* An optional and computed attribute with no configured value is unknown in
\* the plan (Schema: priority, status).
Computed(a) == IF a.kind = "null" THEN Unknown ELSE a

\* The plan of a resource to create: the computed attributes are unknown.
CreatePlan(cfg) ==
    [id |-> Unknown, title |-> cfg.title, description |-> cfg.description,
     due_date |-> cfg.due_date, priority |-> Computed(cfg.priority),
     status |-> Computed(cfg.status), created_at |-> Unknown, updated_at |-> Unknown]

\* The plan of a resource to update: UseStateForUnknown copies the prior
\* state's id into the plan (Schema: id).
UpdatePlan(cfg, prior) ==
    [id |-> IF prior.id.kind = "null" THEN Unknown ELSE prior.id,
     title |-> cfg.title, description |-> cfg.description,
     due_date |-> cfg.due_date, priority |-> Computed(cfg.priority),
     status |-> Computed(cfg.status), created_at |-> Unknown, updated_at |-> Unknown]

VARIABLES
    provider, \* the provider block, the environment and the client Configure handed out
    srv,      \* the remote API: its tasks, the next id it assigns, its clock
    state,    \* the host's recorded state of each resource instance
    pending,  \* the instance was imported and its Read has not yet succeeded
    origin,   \* how the instance's state came about: "none", "create", "import"
    fresh,    \* the instance was read successfully since the remote store last changed
    last,     \* the callback that just returned, until the host has recorded its response
    running   \* under concurrent scheduling: the callback in flight for each instance

vars == <<provider, srv, state, pending, origin, fresh, last, running>>

Call(op, inst, reqState, plan, reqID, fault, c) ==
    [op |-> op, inst |-> inst, reqState |-> reqState, plan |-> plan, reqID |-> reqID,
     fault |-> fault, respState |-> c.state, diags |-> c.diags, reqs |-> c.reqs,
     http |-> c.http, task |-> c.task, list |-> c.list, err |-> c.err]

Idle ==
    [op |-> "idle", inst |-> "", reqState |-> NullState, plan |-> NullState, reqID |-> <<>>,
     fault |-> "none", respState |-> NullState, diags |-> <<>>, reqs |-> <<>>,
     http |-> NoResp, task |-> NoTask, list |-> <<>>, err |-> nil]

\* fresh once the remote API is as next: nothing is fresh once the store changed.
Stale(next) == IF next.tasks = srv.tasks THEN fresh ELSE [j \in Inst |-> FALSE]

\* The provider before Configure.
Unconfigured == [none |-> TRUE]

Init ==
    /\ provider = Unconfigured
    /\ srv = SrvInit
    /\ state = [i \in Inst |-> NullState]
    /\ pending = [i \in Inst |-> FALSE]
    /\ origin = [i \in Inst |-> "none"]
    /\ fresh = [i \in Inst |-> FALSE]
    /\ last = Idle
    /\ running = [w \in Inst \cup DataInst |-> Idle]

\* The host starts the provider and calls Configure once, before any other
\* callback; the resource and the data sources keep the client they are given.
Configure ==
    /\ provider = Unconfigured
    /\ \E d \in Deployments :
         \E c \in {ProviderConfigure(d.config)} :
             provider' = [config |-> d.config, env |-> d.env,
                          ResourceData |-> c.ResourceData,
                          DataSourceData |-> c.DataSourceData]
    /\ UNCHANGED <<srv, state, pending, origin, fresh, last, running>>

\* terraform apply of a new resource block: the host calls Create.
Create(i) ==
    /\ provider # Unconfigured
    /\ last = Idle
    /\ state[i] = NullState
    /\ srv.nextId <= MaxId
    /\ srv.clock < MaxClock
    /\ \E cfg \in Configs, fault \in Faults :
         \E plan \in {CreatePlan(cfg)} : \E c \in {ResourceCreate(provider.ResourceData, plan, srv, fault)} :
             /\ srv' = c.srv
             /\ fresh' = Stale(c.srv)
             /\ last' = Call("Create", i, NullState, plan, <<>>, fault, c)
             /\ UNCHANGED <<provider, state, pending, origin, running>>

\* Refresh: the host calls Read.
Read(i) ==
    /\ provider # Unconfigured
    /\ last = Idle
    /\ state[i] # NullState
    /\ \E fault \in Faults :
         \E c \in {ResourceRead(provider.ResourceData, state[i], srv, fault)} :
             /\ srv' = c.srv
             /\ fresh' = Stale(c.srv)
             /\ last' = Call("Read", i, state[i], NullState, <<>>, fault, c)
             /\ UNCHANGED <<provider, state, pending, origin, running>>

\* terraform apply of a changed resource block: the host calls Update.
Update(i) ==
    /\ provider # Unconfigured
    /\ last = Idle
    /\ state[i] # NullState
    /\ ~pending[i]
    /\ srv.clock < MaxClock
    /\ \E cfg \in Configs, fault \in Faults :
         \E plan \in {UpdatePlan(cfg, state[i])} :
         \E c \in {ResourceUpdate(provider.ResourceData, state[i], plan, srv, fault)} :
             /\ srv' = c.srv
             /\ fresh' = Stale(c.srv)
             /\ last' = Call("Update", i, state[i], plan, <<>>, fault, c)
             /\ UNCHANGED <<provider, state, pending, origin, running>>

\* terraform destroy: the host calls Delete; when Delete returns without an
\* error diagnostic the framework removes the resource from the response state.
Delete(i) ==
    /\ provider # Unconfigured
    /\ last = Idle
    /\ state[i] # NullState
    /\ ~pending[i]
    /\ \E fault \in Faults :
         \E c \in {ResourceDelete(provider.ResourceData, state[i], srv, fault)} :
         \E resp \in {IF HasError(c.diags) THEN c ELSE [c EXCEPT !.state = NullState]} :
             /\ srv' = c.srv
             /\ fresh' = Stale(c.srv)
             /\ last' = Call("Delete", i, state[i], NullState, <<>>, fault, resp)
             /\ UNCHANGED <<provider, state, pending, origin, running>>

\* terraform import: the host calls ImportState; Read follows.
Import(i) ==
    /\ provider # Unconfigured
    /\ last = Idle
    /\ state[i] = NullState
    /\ \E reqID \in ImportIds :
         \E c \in {ImportState(reqID, srv)} :
             /\ last' = Call("ImportState", i, NullState, NullState, reqID, "none", c)
             /\ UNCHANGED <<provider, srv, state, pending, origin, fresh, running>>

\* data "taskmate_task": the host calls the data source's Read.
DataTask ==
    /\ provider # Unconfigured
    /\ last = Idle
    /\ \E id \in DataIds, fault \in Faults :
         \E config \in {[id |-> StringValue(id), title |-> Null, description |-> Null,
                           due_date |-> Null, priority |-> Null, status |-> Null,
                           created_at |-> Null, updated_at |-> Null]} :
         \E c \in {TaskDataSourceRead(provider.DataSourceData, config, srv, fault)} :
             /\ srv' = c.srv
             /\ last' = Call("DataTask", "", NullState, config, id, fault, c)
             /\ UNCHANGED <<provider, state, pending, origin, fresh, running>>

\* data "taskmate_tasks": the host calls the data source's Read.
DataTasks ==
    /\ provider # Unconfigured
    /\ last = Idle
    /\ \E fault \in Faults :
         \E c \in {TasksDataSourceRead(provider.DataSourceData, srv, fault)} :
             /\ srv' = c.srv
             /\ last' = Call("DataTasks", "", NullState, NullState, <<>>, fault, c)
             /\ UNCHANGED <<provider, state, pending, origin, fresh, running>>

\* The host records the response of the callback that returned: the response
\* state of a resource callback becomes the instance's recorded state; a data
\* source's state is not kept.
Persist ==
    /\ last # Idle
    /\ LET i == last.inst
           ok == ~HasError(last.diags)
       IN  IF i \in Inst
           THEN /\ state' = [state EXCEPT ![i] = last.respState]
                /\ pending' = [pending EXCEPT ![i] =
                                 CASE last.op = "ImportState" -> TRUE
                                   [] last.op = "Read" /\ ok -> FALSE
                                   [] OTHER -> @]
                /\ origin' = [origin EXCEPT ![i] =
                                 CASE last.op = "ImportState" -> "import"
                                   [] last.op = "Create" /\ ok -> "create"
                                   [] last.op = "Delete" /\ ok -> "none"
                                   [] OTHER -> @]
                /\ fresh' = [fresh EXCEPT ![i] =
                                 CASE last.op = "Read" -> ok
                                   [] last.op = "Delete" /\ ok -> FALSE
                                   [] OTHER -> @]
           ELSE UNCHANGED <<state, pending, origin, fresh>>
    /\ last' = Idle
    /\ UNCHANGED <<provider, srv, running>>

\* Someone deletes a task through the API, outside the provider.
ExternalDelete ==
    /\ provider # Unconfigured
    /\ last = Idle
    /\ \E k \in 1..MaxId :
         /\ IsTask(srv.tasks[k])
         /\ srv' = [srv EXCEPT !.tasks[k] = NoTask]
    /\ fresh' = [j \in Inst |-> FALSE]
    /\ UNCHANGED <<provider, state, pending, origin, last, running>>

Next ==
    \/ Configure
    \/ \E i \in Inst : Create(i)
    \/ \E i \in Inst : Read(i)
    \/ \E i \in Inst : Update(i)
    \/ \E i \in Inst : Delete(i)
    \/ \E i \in Imported : Import(i)
    \/ DataTask
    \/ DataTasks
    \/ Persist
    \/ ExternalDelete

Spec == Init /\ [][Next]_vars

TypeOK ==
    /\ srv.nextId \in 1..(MaxId + 1)
    /\ srv.clock \in 1..MaxClock
    /\ \A i \in Inst : pending[i] => state[i] # NullState

\* ------------------------------------------------- concurrent scheduling
\* The host runs callbacks of distinct instances concurrently, one at a time
\* per instance. A callback touches what it shares with the others, the
\* client and through it the remote API, in its one HTTP exchange: a Begin
\* step is the callback up to and including that exchange, with the response
\* it will hand back, and End is the host recording that response.
\* The faults of an exchange under concurrent scheduling.
ConcurrentFaults == {"none", "status500"}

BeginCreate(i) ==
    /\ provider # Unconfigured
    /\ running[i] = Idle
    /\ state[i] = NullState
    /\ srv.nextId <= MaxId
    /\ srv.clock < MaxClock
    /\ \E cfg \in Configs, fault \in ConcurrentFaults :
         \E plan \in {CreatePlan(cfg)} :
         \E c \in {ResourceCreate(provider.ResourceData, plan, srv, fault)} :
             /\ srv' = c.srv
             /\ running' = [running EXCEPT ![i] = Call("Create", i, NullState, plan, <<>>, fault, c)]
             /\ UNCHANGED <<provider, state, pending, origin, fresh, last>>

\* Read handed the state of some instance that has one, whichever is asked for.
BeginRead_SharedModel(i) ==
    /\ provider # Unconfigured
    /\ running[i] = Idle
    /\ state[i] # NullState
    /\ \E fault \in ConcurrentFaults :
         \E j \in {CHOOSE k \in Inst : state[k] # NullState} :
         \E c \in {ResourceRead(provider.ResourceData, state[j], srv, fault)} :
             /\ srv' = c.srv
             /\ running' = [running EXCEPT ![i] = Call("Read", i, state[i], NullState, <<>>, fault, c)]
             /\ UNCHANGED <<provider, state, pending, origin, fresh, last>>

BeginRead(i) ==
    /\ provider # Unconfigured
    /\ running[i] = Idle
    /\ state[i] # NullState
    /\ \E fault \in ConcurrentFaults :
         \E c \in {ResourceRead(provider.ResourceData, state[i], srv, fault)} :
             /\ srv' = c.srv
             /\ running' = [running EXCEPT ![i] = Call("Read", i, state[i], NullState, <<>>, fault, c)]
             /\ UNCHANGED <<provider, state, pending, origin, fresh, last>>

BeginUpdate(i) ==
    /\ provider # Unconfigured
    /\ running[i] = Idle
    /\ state[i] # NullState
    /\ srv.clock < MaxClock
    /\ \E cfg \in Configs, fault \in ConcurrentFaults :
         \E plan \in {UpdatePlan(cfg, state[i])} :
         \E c \in {ResourceUpdate(provider.ResourceData, state[i], plan, srv, fault)} :
             /\ srv' = c.srv
             /\ running' = [running EXCEPT ![i] = Call("Update", i, state[i], plan, <<>>, fault, c)]
             /\ UNCHANGED <<provider, state, pending, origin, fresh, last>>

BeginDelete(i) ==
    /\ provider # Unconfigured
    /\ running[i] = Idle
    /\ state[i] # NullState
    /\ \E fault \in ConcurrentFaults :
         \E c \in {ResourceDelete(provider.ResourceData, state[i], srv, fault)} :
         \E resp \in {IF HasError(c.diags) THEN c ELSE [c EXCEPT !.state = NullState]} :
             /\ srv' = c.srv
             /\ running' = [running EXCEPT ![i] = Call("Delete", i, state[i], NullState, <<>>, fault, resp)]
             /\ UNCHANGED <<provider, state, pending, origin, fresh, last>>

BeginDataTasks(d) ==
    /\ provider # Unconfigured
    /\ running[d] = Idle
    /\ \E fault \in ConcurrentFaults :
         \E c \in {TasksDataSourceRead(provider.DataSourceData, srv, fault)} :
             /\ srv' = c.srv
             /\ running' = [running EXCEPT ![d] = Call("DataTasks", d, NullState, NullState, <<>>, fault, c)]
             /\ UNCHANGED <<provider, state, pending, origin, fresh, last>>

\* The host records the response of the callback in flight for w: a resource's
\* response state becomes its recorded state, a data source's is not kept.
End(w) ==
    /\ running[w] # Idle
    /\ state' = IF w \in Inst THEN [state EXCEPT ![w] = running[w].respState] ELSE state
    /\ running' = [running EXCEPT ![w] = Idle]
    /\ UNCHANGED <<provider, srv, pending, origin, fresh, last>>

NextConcurrent ==
    \/ Configure
    \/ \E i \in Inst : BeginCreate(i)
    \/ \E i \in Inst : BeginRead(i)
    \/ \E i \in Inst : BeginUpdate(i)
    \/ \E i \in Inst : BeginDelete(i)
    \/ \E d \in DataInst : BeginDataTasks(d)
    \/ \E w \in Inst \cup DataInst : End(w)

SpecConcurrent == Init /\ [][NextConcurrent]_vars

\* ------------------------------------------------- vocabulary of the properties
\* s is the decimal numeral of the natural number n: digits only, no leading zero.
IsDecimalOf(s, n) ==
    /\ Len(s) >= 1
    /\ \A k \in 1..Len(s) : IsDigit(s[k])
    /\ Len(s) > 1 => s[1] # "0"
    /\ DecimalValue(s, 1, Len(s) + 1, 0) = n

\* s is a well-formed integer: an optional sign, then digits, then nothing.
WellFormedInt(s) ==
    LET d == IF Len(s) >= 1 /\ s[1] \in {"+", "-"} THEN 2 ELSE 1
    IN  /\ Len(s) >= d
        /\ \A k \in d..Len(s) : IsDigit(s[k])

\* The planned string of an attribute: its value when known, "" otherwise.
Planned(a, str) == IF a.kind = "known" THEN str = a.v ELSE str = ""

\* The seven attributes other than id of st are those of the response task t.
SevenFrom(st, t) ==
    /\ st.title = StringValue(t.title)
    /\ st.description = StringValue(t.description)
    /\ st.due_date = StringValue(t.due_date)
    /\ st.priority = StringValue(t.priority)
    /\ st.status = StringValue(t.status)
    /\ st.created_at = StringValue([sec |-> t.created_at \div 2])
    /\ st.updated_at = StringValue([sec |-> t.updated_at \div 2])

\* The seven attributes other than id of st are all unset.
SevenNull(st) ==
    \A f \in {"title", "description", "due_date", "priority", "status",
              "created_at", "updated_at"} : st[f] = Null

Succeeded == ~HasError(last.diags)

\* The one request of the last callback is method on the task the id string names.
OneRequestFor(method, idstr) ==
    /\ Len(last.reqs) = 1
    /\ last.reqs[1].method = method
    /\ last.reqs[1].path.base = "/tasks"
    /\ last.reqs[1].path.id = Sprintf_d(Sscanf_d(idstr).n)

\* The client call of the last callback was answered with HTTP 404.
Answered404 == last.http.net = "ok" /\ last.http.status = 404

C2_Read404RemovesState ==
    (last.op = "Read" /\ Answered404) => last.respState = NullState

\* ------------------------------------------------- C3
\* C3: a successful Create made exactly one CreateTask call, a POST whose body
\* carries the planned title, description, due_date and priority, and its
\* response state has all eight attributes from the response, the id being
\* the decimal numeral of the id the API assigned.
C3_CreateSuccess ==
    (last.op = "Create" /\ Succeeded) =>
        /\ Len(last.reqs) = 1
        /\ last.reqs[1].method = "POST"
        /\ last.reqs[1].path = [base |-> "/tasks", id |-> <<>>]
        /\ Planned(last.plan.title, last.reqs[1].body.title)
        /\ Planned(last.plan.description, last.reqs[1].body.description)
        /\ Planned(last.plan.due_date, last.reqs[1].body.due_date)
        /\ Planned(last.plan.priority, last.reqs[1].body.priority)
        /\ IsTask(last.http.task)
        /\ last.respState.id.kind = "known"
        /\ IsDecimalOf(last.respState.id.v, last.http.task.id)
        /\ SevenFrom(last.respState, last.http.task)

C3_Witness ==
    /\ last.op = "Create"
    /\ Succeeded
    /\ last.plan.priority = Unknown
    /\ last.respState.priority = StringValue("medium")

\* ------------------------------------------------- C4
\* C4: when CreateTask returns an error (the transport fails, the status is
\* not 201, or the body does not decode), Create reports an error diagnostic
\* and sets no state.
C4_CreateFailed ==
    last.http.net = "err" \/ last.http.status # 201 \/ ~last.http.decodes

C4_CreateErrorNoState ==
    (last.op = "Create" /\ C4_CreateFailed) =>
        /\ HasError(last.diags)
        /\ last.respState = NullState

C4_Witness ==
    /\ last.op = "Create"
    /\ last.http.net = "ok"
    /\ last.http.status = 200
    /\ last.http.decodes
    /\ IsTask(last.http.task)

\* ------------------------------------------------- C5
\* C5: a successful resource Read called GetTask with the integer parsed from
\* the id of the request's state, and its response state keeps that id string
\* unchanged while the seven other attributes are those of the response.
C5_ReadSuccess ==
    (last.op = "Read" /\ Succeeded) =>
        /\ OneRequestFor("GET", last.reqState.id.v)
        /\ last.reqs[1].body = NoBody
        /\ last.respState.id = last.reqState.id
        /\ IsTask(last.http.task)
        /\ SevenFrom(last.respState, last.http.task)

C5_Witness ==
    /\ last.op = "Read"
    /\ Succeeded
    /\ last.reqState.id = StringValue(<<"0", "1">>)
    /\ last.reqState.title = Null
    /\ last.respState.title.kind = "known"

\* ------------------------------------------------- C6
\* The request half of C6: Update called UpdateTask once, a PUT for the id of
\* the resource's state whose body carries the planned title, description,
\* due_date, priority and status.
C6_UpdateRequest ==
    /\ OneRequestFor("PUT", last.reqState.id.v)
    /\ Planned(last.plan.title, last.reqs[1].body.title)
    /\ Planned(last.plan.description, last.reqs[1].body.description)
    /\ Planned(last.plan.due_date, last.reqs[1].body.due_date)
    /\ Planned(last.plan.priority, last.reqs[1].body.priority)
    /\ Planned(last.plan.status, last.reqs[1].body.status)

\* C6 as stated: a successful Update made that request and its response state
\* has all its attributes, the id included, from the response.
C6_UpdateAllFromResponse ==
    (last.op = "Update" /\ Succeeded) =>
        /\ C6_UpdateRequest
        /\ IsTask(last.http.task)
        /\ last.respState.id.kind = "known"
        /\ IsDecimalOf(last.respState.id.v, last.http.task.id)
        /\ SevenFrom(last.respState, last.http.task)

\* C6 amended: a successful Update made that request and its response state
\* has the seven attributes other than id from the response, the id being the
\* id string of the resource's state, unchanged.
C6_UpdateSuccess ==
    (last.op = "Update" /\ Succeeded) =>
        /\ C6_UpdateRequest
        /\ IsTask(last.http.task)
        /\ last.respState.id = last.reqState.id
        /\ SevenFrom(last.respState, last.http.task)

C6_Witness ==
    /\ last.op = "Update"
    /\ Succeeded
    /\ last.reqState.id = StringValue(<<"0", "1">>)
    /\ last.plan.status = StringValue("completed")
    /\ last.respState.status = StringValue("completed")

\* ------------------------------------------------- C7
\* C7: Delete issues at most one request, the DELETE for the id of the
\* request's state; the resource is gone from the response state if and only
\* if Delete ended without an error diagnostic, and when DeleteTask failed the
\* state is exactly the one the request carried.
C7_DeleteFailed == last.http.net = "err" \/ last.http.status # 204

C7_Delete ==
    last.op = "Delete" =>
        /\ last.reqs = <<>> \/ OneRequestFor("DELETE", last.reqState.id.v)
        /\ \A k \in 1..Len(last.reqs) : last.reqs[k].body = NoBody
        /\ (last.respState = NullState) <=> Succeeded
        /\ Succeeded => (Len(last.reqs) = 1 /\ ~C7_DeleteFailed)
        /\ ~Succeeded => last.respState = last.reqState

C7_Witness ==
    /\ last.op = "Delete"
    /\ Len(last.reqs) = 1
    /\ C7_DeleteFailed
    /\ last.respState = last.reqState
    /\ last.respState # NullState

\* ------------------------------------------------- C8
\* C8: ImportState issues no request and its response state has the id set to
\* the import identifier verbatim and every other attribute unset; a recorded
\* state keeps them unset until the Read that follows has succeeded.
C8_Import ==
    /\ last.op = "ImportState" =>
          /\ last.reqs = <<>>
          /\ last.http = NoResp
          /\ Succeeded
          /\ last.respState.id = StringValue(last.reqID)
          /\ SevenNull(last.respState)
    /\ \A i \in Inst : pending[i] => SevenNull(state[i])

C8_Witness ==
    /\ last.op = "ImportState"
    /\ last.reqID = <<"0", "1">>
    /\ last.respState.id.v = <<"0", "1">>

\* ------------------------------------------------- C9
\* Instance a was created and b imported, both were read since the remote
\* store last changed, and their ids name the same task.
C9_Pair(a, b) ==
    /\ origin[a] = "create" /\ origin[b] = "import"
    /\ fresh[a] /\ fresh[b]
    /\ Sscanf_d(state[a].id.v).ok /\ Sscanf_d(state[b].id.v).ok
    /\ Sscanf_d(state[a].id.v).n = Sscanf_d(state[b].id.v).n

\* C9 as stated: for any import identifier that Read accepts, import then
\* Read yields the same eight attribute values as Create then Read.
C9_RoundTripEight ==
    \A a, b \in Inst : C9_Pair(a, b) => state[a] = state[b]

\* C9 amended: import then Read yields the same seven attribute values other
\* than id as Create then Read; the imported id is the import identifier as
\* given, so all eight agree when it is the decimal numeral of the task id.
C9_RoundTrip ==
    \A a, b \in Inst : C9_Pair(a, b) =>
        /\ \A f \in {"title", "description", "due_date", "priority", "status",
                     "created_at", "updated_at"} : state[a][f] = state[b][f]
        /\ IsDecimalOf(state[b].id.v, Sscanf_d(state[a].id.v).n) => state[a] = state[b]
        /\ ~IsDecimalOf(state[b].id.v, Sscanf_d(state[a].id.v).n) => state[a].id # state[b].id

C9_Witness ==
    \E a, b \in Inst :
        /\ C9_Pair(a, b)
        /\ state[a] = state[b]
        /\ state[a].status = StringValue("completed")

\* ------------------------------------------------- C10
\* The id string the last callback parsed.
C10_IdString == IF last.op = "DataTask" THEN last.reqID ELSE last.reqState.id.v

\* C10: for every id string that is not a well-formed integer, resource Read,
\* Update and Delete and the single-task data source Read report a Parse
\* Error diagnostic and issue no request.
C10_MalformedIdNoRequest ==
    (last.op \in {"Read", "Update", "Delete", "DataTask"} /\ ~WellFormedInt(C10_IdString)) =>
        /\ last.diags = <<"Parse Error">>
        /\ last.reqs = <<>>

\* ------------------------------------------------- C11
\* C11: the id recorded for a managed task never changes while the resource
\* stays in state: whatever callback returns and is recorded, successful or
\* failed, an instance that has a state before and after the step has the same
\* id string in both.
C11_IdImmutable ==
    [][\A i \in Inst :
          (state[i] # NullState /\ state'[i] # NullState) => state'[i].id = state[i].id]_vars

C11_Witness ==
    /\ last.op = "Update"
    /\ ~Succeeded
    /\ Len(last.reqs) = 1
    /\ origin[last.inst] = "import"
    /\ state[last.inst].id = StringValue(<<"0", "1">>)
    /\ state[last.inst].title.kind = "known"
    /\ last.respState.id = StringValue(<<"0", "1">>)

C13_EnvFallback ==
    provider # Unconfigured =>
        /\ (provider.config.host = Null /\ provider.env.TASKMATE_HOST # "") =>
              provider.ResourceData.Host = provider.env.TASKMATE_HOST
        /\ (provider.config.token = Null /\ provider.env.TASKMATE_TOKEN # "") =>
              provider.ResourceData.Token = provider.env.TASKMATE_TOKEN

\* ------------------------------------------------- C14
\* The client the last callback used.
C14_Client ==
    IF last.op \in {"DataTask", "DataTasks"} THEN provider.DataSourceData
    ELSE provider.ResourceData

\* The path the last callback's client operation asks for.
C14_Path ==
    IF last.op \in {"Create", "DataTasks"} THEN [base |-> "/tasks", id |-> <<>>]
    ELSE [base |-> "/tasks", id |-> Sprintf_d(Sscanf_d(C10_IdString).n)]

C15_Status(code) == last.http.net = "ok" /\ last.http.status = code

\* The error of the last callback's client call is the generic API error with
\* the response's body and status code.
C15_GenericError ==
    last.err = [kind |-> "API error",
                body |-> [decodes |-> last.http.decodes, task |-> last.http.task,
                          list |-> last.http.list],
                status |-> last.http.status]

\* The error of the last callback's client call is the not-found error naming
\* the id the callback parsed.
C15_NotFoundError ==
    last.err = [kind |-> "not found", id |-> Sscanf_d(C10_IdString).n]

\* C15: GetTask returns a Task and no error exactly when the status is 200
\* and the body decodes, the Task being the decoded one; 404 gives the
\* not-found error naming the id, any other status the generic API error with
\* body and status code; with an error no Task is returned.
C15_GetTask ==
    (last.op \in {"Read", "DataTask"} /\ Len(last.reqs) = 1) =>
        /\ (last.err = nil) <=> (C15_Status(200) /\ last.http.decodes)
        /\ last.err = nil => (IsTask(last.task) /\ last.task = last.http.task)
        /\ C15_Status(404) => C15_NotFoundError
        /\ (last.http.net = "ok" /\ last.http.status \notin {200, 404}) => C15_GenericError
        /\ last.err # nil => last.task = NoTask

C15_Witness ==
    /\ last.op = "DataTask"
    /\ last.reqID = <<"2">>
    /\ C15_Status(404)
    /\ last.err.kind = "not found"
    /\ last.err.id = 2
    /\ last.task = NoTask

\* ------------------------------------------------- C16
\* C16: CreateTask returns the decoded Task and no error exactly when the
\* status is 201 and the body decodes; every other status, 200 included,
\* gives the generic API error with body and status code and no Task.
C16_CreateTask ==
    last.op = "Create" =>
        /\ (last.err = nil) <=> (C15_Status(201) /\ last.http.decodes)
        /\ last.err = nil => (IsTask(last.task) /\ last.task = last.http.task)
        /\ (last.http.net = "ok" /\ last.http.status # 201) => C15_GenericError
        /\ last.err # nil => last.task = NoTask

C16_Witness ==
    /\ last.op = "Create"
    /\ C15_Status(200)
    /\ last.err.kind = "API error"
    /\ last.err.status = 200
    /\ IsTask(last.err.body.task)
    /\ last.task = NoTask

\* ------------------------------------------------- C17
\* C17: UpdateTask returns the decoded Task and no error exactly when the
\* status is 200 and the body decodes; 404 gives the not-found error naming
\* the id, any other status the generic API error; with an error no Task is
\* returned.
C17_UpdateTask ==
    (last.op = "Update" /\ Len(last.reqs) = 1) =>
        /\ (last.err = nil) <=> (C15_Status(200) /\ last.http.decodes)
        /\ last.err = nil => (IsTask(last.task) /\ last.task = last.http.task)
        /\ C15_Status(404) => C15_NotFoundError
        /\ (last.http.net = "ok" /\ last.http.status \notin {200, 404}) => C15_GenericError
        /\ last.err # nil => last.task = NoTask

C17_Witness ==
    /\ last.op = "Update"
    /\ C15_Status(200)
    /\ ~last.http.decodes
    /\ IsTask(last.http.task)
    /\ last.err.kind = "failed to decode response"
    /\ last.task = NoTask

\* ------------------------------------------------- C18
\* C18: DeleteTask returns no error exactly when the status is 204; 404 gives
\* the not-found error naming the id, every other status, 200 included, the
\* generic API error.
C18_DeleteTask ==
    (last.op = "Delete" /\ Len(last.reqs) = 1) =>
        /\ (last.err = nil) <=> C15_Status(204)
        /\ C15_Status(404) => C15_NotFoundError
        /\ (last.http.net = "ok" /\ last.http.status \notin {204, 404}) => C15_GenericError

C18_Witness ==
    /\ last.op = "Delete"
    /\ C15_Status(200)
    /\ last.err.kind = "API error"
    /\ last.err.status = 200

\* ------------------------------------------------- C19
\* C19: the single-task data source's Read issues at most one request, a GET
\* without body for the task its configured id names, and no other; on success
\* its state is the configured id string as given with the seven other
\* attributes from the response, and on any error it has no state.
C19_DataTaskRead ==
    last.op = "DataTask" =>
        /\ Len(last.reqs) <= 1
        /\ \A k \in 1..Len(last.reqs) :
              /\ last.reqs[k].method = "GET"
              /\ last.reqs[k].path = [base |-> "/tasks", id |-> Sprintf_d(Sscanf_d(last.reqID).n)]
              /\ last.reqs[k].body = NoBody
        /\ Succeeded =>
              /\ Len(last.reqs) = 1
              /\ last.respState.id = StringValue(last.reqID)
              /\ IsTask(last.task)
              /\ SevenFrom(last.respState, last.task)
        /\ ~Succeeded => last.respState = NullState

C19_Witness ==
    /\ last.op = "DataTask"
    /\ Succeeded
    /\ last.reqID = <<" ", "1">>
    /\ last.respState.id.v = <<" ", "1">>
    /\ last.respState.title.kind = "known"

\* ------------------------------------------------- C20
\* C20: a successful Read of the task-list data source has one entry per task
\* ListTasks returned, in the same order, entry k carrying the eight
\* attributes of task k, and its own id is "tasks".
C20_TasksRead ==
    (last.op = "DataTasks" /\ Succeeded) =>
        /\ last.err = nil
        /\ last.list = last.http.list
        /\ DOMAIN last.respState.tasks = 1..Len(last.list)
        /\ \A k \in 1..Len(last.list) :
              /\ last.respState.tasks[k].id.kind = "known"
              /\ IsDecimalOf(last.respState.tasks[k].id.v, last.list[k].id)
              /\ SevenFrom(last.respState.tasks[k], last.list[k])
        /\ last.respState.id = StringValue("tasks")

C20_Witness ==
    /\ last.op = "DataTasks"
    /\ Succeeded
    /\ Len(last.list) = 2
    /\ last.list[1].id = 1
    /\ last.list[2].id = 2
    /\ last.respState.tasks[2].id = StringValue(<<"2">>)

\* ------------------------------------------------- C21
\* The id parse of the last callback failed.
C21_ParseFailed ==
    /\ last.op \in {"Read", "Update", "Delete", "DataTask"}
    /\ ~Sscanf_d(C10_IdString).ok

C23_OwnStateOnly(i) ==
    running[i] # Idle =>
        /\ running[i].inst = i
        /\ running[i].reqState = state[i]
        /\ \A k \in 1..Len(running[i].reqs) :
              /\ running[i].reqs[k].url[1] = provider.ResourceData.Host
              /\ running[i].reqs[k].path.id =
                    IF running[i].op = "Create" THEN <<>>
                    ELSE Sprintf_d(Sscanf_d(state[i].id.v).n)
        /\ HasError(running[i].diags) => running[i].respState = state[i]
        /\ (~HasError(running[i].diags) /\ running[i].op = "Delete") =>
              running[i].respState = NullState
        /\ (~HasError(running[i].diags) /\ running[i].op \in {"Read", "Update"}) =>
              /\ running[i].respState.id = state[i].id
              /\ SevenFrom(running[i].respState, running[i].task)
        /\ (~HasError(running[i].diags) /\ running[i].op = "Create") =>
              /\ running[i].respState.id = StringValue(Sprintf_d(running[i].task.id))
              /\ SevenFrom(running[i].respState, running[i].task)
              /\ \A j \in Inst \ {i} :
                    state[j] # NullState => state[j].id # running[i].respState.id

\* A step leaves the configured provider's client as it is, and changes the
\* recorded state of an instance only by recording the response of that
\* instance's own callback, leaving every other instance's state and
\* callback as they are.
C23_OwnStep ==
    /\ provider # Unconfigured => provider' = provider
    /\ \A i \in Inst :
          state'[i] # state[i] =>
              /\ running[i] # Idle
              /\ state'[i] = running[i].respState
              /\ \A j \in (Inst \cup DataInst) \ {i} : running'[j] = running[j]
              /\ \A j \in Inst \ {i} : state'[j] = state[j]

\* C23: under any interleaving of the callbacks the host runs concurrently
\* for distinct instances, the shared client's host and token never change
\* once the provider is configured, and a callback for one instance neither
\* reads nor modifies the recorded state of another.
C23_Isolation ==
    /\ [](\A i \in Inst : C23_OwnStateOnly(i))
    /\ [][C23_OwnStep]_vars

C23_Witness ==
    /\ running["r1"].op = "Create"
    /\ ~HasError(running["r1"].diags)
    /\ running["r1"].task.id = 1
    /\ state["r1"] = NullState
    /\ state["r2"] # NullState
    /\ state["r2"].id = StringValue(<<"2">>)
    /\ running["d1"].op = "DataTasks"
    /\ Len(running["d1"].list) = 2

\* ------------------------------------------------- C24
\* Task n was created and has been deleted: the API handed the id out and
\* holds no task for it.
C24_Deleted(n) == n \in 1..MaxId /\ n < srv.nextId /\ ~IsTask(srv.tasks[n])

\* C24: once a task has been deleted, a GetTask for its id that gets the API's
\* answer yields the not-found error naming the id and no Task, and the Read
\* that made it ends with an error diagnostic.
C24_GetAfterDelete ==
    (/\ last.op \in {"Read", "DataTask"}
     /\ Len(last.reqs) = 1
     /\ last.fault \notin {"transport", "status500"}
     /\ C24_Deleted(Sscanf_d(C10_IdString).n)) =>
        /\ last.err = [kind |-> "not found", id |-> Sscanf_d(C10_IdString).n]
        /\ last.task = NoTask
        /\ HasError(last.diags)

C24_Witness ==
    /\ last.op = "Read"
    /\ last.inst = "r2"
    /\ last.reqState.id = StringValue(<<"1">>)
    /\ origin["r1"] = "none"
    /\ srv.nextId = 2
    /\ ~IsTask(srv.tasks[1])
    /\ last.err.kind = "not found"

C26_Present == {k \in 1..MaxId : IsTask(srv.tasks[k])}

\* C26: a successful Read of the task-list data source has as many entries as
\* there are tasks created and not deleted, and each of those tasks is the
\* subject of exactly one entry.
C26_ListComplete ==
    (last.op = "DataTasks" /\ Succeeded) =>
        /\ Cardinality(DOMAIN last.respState.tasks) = Cardinality(C26_Present)
        /\ \A k \in C26_Present :
              Cardinality({j \in DOMAIN last.respState.tasks :
                              last.respState.tasks[j].id = StringValue(Sprintf_d(k))}) = 1

C26_Witness ==
    /\ last.op = "DataTasks"
    /\ Succeeded
    /\ srv.nextId = 3
    /\ C26_Present = {2}
    /\ Cardinality(DOMAIN last.respState.tasks) = 1

\* ------------------------------------------------- C27
\* C27: the body of CreateTask's request has exactly the keys title,
\* description, due_date and priority, that of UpdateTask's those four and
\* status, each value being the plan's when known and "" when null or
\* unknown; the requests of GetTask, DeleteTask and ListTasks have no body.
C27_Bodies ==
    \A k \in 1..Len(last.reqs) :
        /\ last.op = "Create" =>
              /\ DOMAIN last.reqs[k].body = {"title", "description", "due_date", "priority"}
              /\ \A f \in DOMAIN last.reqs[k].body : Planned(last.plan[f], last.reqs[k].body[f])
        /\ last.op = "Update" =>
              /\ DOMAIN last.reqs[k].body =
                    {"title", "description", "due_date", "priority", "status"}
              /\ \A f \in DOMAIN last.reqs[k].body : Planned(last.plan[f], last.reqs[k].body[f])
        /\ last.op \in {"Read", "Delete", "DataTask", "DataTasks"} =>
              last.reqs[k].body = NoBody

C27_Witness ==
    /\ last.op = "Create"
    /\ last.plan.status = StringValue("completed")
    /\ last.plan.created_at = Unknown
    /\ Len(last.reqs) = 1
    /\ "status" \notin DOMAIN last.reqs[1].body
    /\ last.reqs[1].body.priority = "high"

\* ------------------------------------------------- C28
\* C28: after a successful Create or Update the description and due_date in
\* state are the planned values, a null one staying null.
C28_OptionalAsPlanned ==
    (last.op \in {"Create", "Update"} /\ Succeeded) =>
        /\ last.respState.description = last.plan.description
        /\ last.respState.due_date = last.plan.due_date

\* ------------------------------------------------- C29
\* C29: after a successful Create whose plan has a known status, the status
\* in state is the planned one.
C29_CreateStatusAsPlanned ==
    (last.op = "Create" /\ Succeeded /\ last.plan.status.kind = "known") =>
        last.respState.status = last.plan.status

\* ------------------------------------------------- C30
\* The task the state st names was handed out by the remote API and is no
\* longer there.
C30_Gone(st) ==
    /\ Sscanf_d(st.id.v).ok
    /\ C24_Deleted(Sscanf_d(st.id.v).n)

====
